---- MODULE Spec2Model ----
(***************************************************************************)
(* Model of the codec search function of the vendored "encodings" package  *)
(* (evenv/Lib/encodings/__init__.py, CPython 3.12, present as compiled     *)
(* bytecode): normalize_encoding() and search_function() with the module   *)
(* level state _cache and _aliases.                                        *)
(*                                                                         *)
(* Names are sequences of characters; a character is a one-token string.   *)
(***************************************************************************)
EXTENDS Integers, Sequences, FiniteSets, TLC

VARIABLES
    _cache,     \* dict: encoding (as passed) -> None | CodecInfo
    _aliases,   \* dict: normalized name -> module name (aliases.aliases)
    modules,    \* the importable modules under the "encodings." prefix
    nextId,     \* identity of the next CodecInfo object constructed
    log,        \* observation: one record per completed search_function call
    encA,       \* normalize_encoding: first input
    encB,       \* normalize_encoding: second input
    outA,       \* normalize_encoding(encA)
    outB,       \* normalize_encoding(encB)
    outAA,      \* normalize_encoding(normalize_encoding(encA))
    npc,        \* position of the normalize_encoding driver
    tstate,     \* per thread: position in search_function and its locals
    done,       \* observation: the calls threads have returned from
    writes      \* observation: per name, the entries written to _cache

vars == <<_cache, _aliases, modules, nextId, log, encA, encB, outA, outB, outAA, npc,
          tstate, done, writes>>

threadVars == <<tstate, done, writes>>
resolverVars == <<_cache, _aliases, modules, nextId, log, tstate, done, writes>>
normVars == <<encA, encB, outA, outB, outAA, npc>>

----------------------------------------------------------------------------
(* Bounds *)

\* longest name handed to normalize_encoding
MaxLen == 3
\* number of search_function calls in one behaviour
MaxCalls == 3
\* number of threads calling search_function concurrently
MaxThreads == 2
\* number of search_function calls the threads make in one behaviour
MaxThreadCalls == 3

----------------------------------------------------------------------------
(* Characters *)

\* a letter outside ASCII for which str.isalnum() is true (e.g. U+00E9)
NonAsciiAlnum == "U+00E9"

AsciiAlnum == {"a", "b", "x", "y", "A"}

\* str.isalnum()
isalnum(c) == c \in AsciiAlnum \cup {NonAsciiAlnum}

\* str.isascii()
isascii(c) == c # NonAsciiAlnum

\* Retained where the underscore is retained as well
Retained_KeepUnderscore(c) == isalnum(c) \/ c = "." \/ c = "_"

\* the characters normalize_encoding retains: c.isalnum() or c == '.'
Retained(c) == isalnum(c) \/ c = "."

\* one iteration of the for loop of normalize_encoding over the pair
\* <<chars, punct>>
NormStep(st, c) ==
    LET chars == st[1]
        punct == st[2]
    IN  IF Retained(c)
        THEN LET sep  == IF punct /\ chars # <<>> THEN Append(chars, "_") ELSE chars
                 kept == IF isascii(c) THEN Append(sep, c) ELSE sep
             IN  <<kept, FALSE>>
        ELSE <<chars, TRUE>>

RECURSIVE NormLoop(_, _, _)
NormLoop(encoding, i, st) ==
    IF i > Len(encoding) THEN st
    ELSE NormLoop(encoding, i + 1, NormStep(st, encoding[i]))

\* normalize_encoding(encoding) for a str argument (a bytes argument is
\* first decoded with str(encoding, "ascii")): ''.join(chars)
normalize_encoding(encoding) == NormLoop(encoding, 1, <<(<<>>), FALSE>>)[1]

----------------------------------------------------------------------------
(* Values *)

\* Python's None where a registry entry is expected (also what the cache
\* holds for a miss)
NoneEntry == [id |-> 0, name |-> <<>>, members |-> <<>>]

\* codecs.CodecInfo(*args): a new object (identity id) holding its members
CodecInfo(id, name, members) == [id |-> id, name |-> name, members |-> members]

\* callable(x) on a member of a registry entry
callable(x) == x = "callable"

\* a module that cannot be imported (ImportError)
NoModule ==
    [exists |-> FALSE, hasreg |-> FALSE, isinfo |-> FALSE, entry |-> <<>>,
     hasaliases |-> FALSE, aliases |-> <<>>]

\* a module mod: whether it defines getregentry, what getregentry()
\* returns (a CodecInfo or a plain tuple), and its optional getaliases()
Module(hasreg, isinfo, entry, hasaliases, aliases) ==
    [exists |-> TRUE, hasreg |-> hasreg, isinfo |-> isinfo, entry |-> entry,
     hasaliases |-> hasaliases, aliases |-> aliases]

----------------------------------------------------------------------------
(* search_function *)

\* dict.get(key) on _aliases: found is "the result is not None"
AliasGet(al, key) ==
    IF key \in DOMAIN al THEN [found |-> TRUE, value |-> al[key]]
    ELSE [found |-> FALSE, value |-> <<>>]

\* norm_encoding.replace('.', '_')
ReplaceDots(name) == [i \in 1..Len(name) |-> IF name[i] = "." THEN "_" ELSE name[i]]

\* aliased_encoding = _aliases.get(norm_encoding) or
\*                    _aliases.get(norm_encoding.replace('.', '_'))
AliasedEncoding(al, norm_encoding) ==
    LET first == AliasGet(al, norm_encoding)
    IN  IF first.found /\ first.value # <<>> THEN first
        ELSE AliasGet(al, ReplaceDots(norm_encoding))

\* ModNames with the order reversed: the normalized name before the alias target
ModNames_NormFirst(aliased_encoding, norm_encoding) ==
    IF aliased_encoding.found THEN <<norm_encoding, aliased_encoding.value>>
    ELSE <<norm_encoding>>

\* modnames = [aliased_encoding, norm_encoding] if an alias was found,
\* else [norm_encoding]
ModNames(aliased_encoding, norm_encoding) ==
    IF aliased_encoding.found THEN <<aliased_encoding.value, norm_encoding>>
    ELSE <<norm_encoding>>

\* Skipped with only the test "if not modname"
Skipped_EmptyOnly(modname) == modname = <<>>

\* "if not modname or '.' in modname: continue"
Skipped(modname) == modname = <<>> \/ \E i \in 1..Len(modname) : modname[i] = "."

\* __import__('encodings.' + modname, ...) succeeds
Importable(mods, modname) == modname \in DOMAIN mods /\ mods[modname].exists

\* the for loop over modnames: the imports attempted, in order, and the
\* module the loop ended with (loaded = FALSE: the else branch, mod = None)
RECURSIVE ImportLoop(_, _, _, _)
ImportLoop(mods, modnames, i, imports) ==
    IF i > Len(modnames)
    THEN [imports |-> imports, loaded |-> FALSE, modname |-> <<>>]
    ELSE LET modname == modnames[i]
         IN  IF Skipped(modname) THEN ImportLoop(mods, modnames, i + 1, imports)
             ELSE IF Importable(mods, modname)
                  THEN [imports |-> Append(imports, modname), loaded |-> TRUE,
                        modname |-> modname]
                  ELSE ImportLoop(mods, modnames, i + 1, Append(imports, modname))

\* "4 <= len(entry) <= 7"
LengthOk(entry) == 4 <= Len(entry) /\ Len(entry) <= 7

\* the callable checks on a tuple entry (Python indices 0..5)
MembersOk(entry) ==
    /\ callable(entry[1])
    /\ callable(entry[2])
    /\ (entry[3] = "None" \/ callable(entry[3]))
    /\ (entry[4] = "None" \/ callable(entry[4]))
    /\ (Len(entry) > 4 => (entry[5] = "None" \/ callable(entry[5])))
    /\ (Len(entry) > 5 => (entry[6] = "None" \/ callable(entry[6])))

\* (None,) * n
Nones(n) == [i \in 1..(IF n > 0 THEN n ELSE 0) |-> "None"]

\* "if len(entry) < 7 or entry[6] is None:
\*      entry += (None,)*(6-len(entry)) + (mod.__name__.split(".", 1)[1],)"
Padded(entry) ==
    IF Len(entry) < 7 \/ entry[7] = "None"
    THEN entry \o Nones(6 - Len(entry)) \o <<"name">>
    ELSE entry

\* from "entry = getregentry()" to the CodecInfo: what is raised ("" for
\* nothing) and the entry obtained, a new object with identity id
RegistryEntry(m, modname, id) ==
    IF m.isinfo THEN [raised |-> "", entry |-> CodecInfo(id, modname, m.entry)]
    ELSE IF ~LengthOk(m.entry)
    THEN [raised |-> "CodecRegistryError: failed to register", entry |-> NoneEntry]
    ELSE IF ~MembersOk(m.entry)
    THEN [raised |-> "CodecRegistryError: incompatible codecs", entry |-> NoneEntry]
    ELSE IF Len(Padded(m.entry)) > 7
    THEN [raised |-> "TypeError", entry |-> NoneEntry]
    ELSE [raised |-> "", entry |-> CodecInfo(id, modname, Padded(m.entry))]

\* "for alias in codecaliases: if alias not in _aliases:
\*      _aliases[alias] = modname"
RECURSIVE RegisterAliases(_, _, _, _)
RegisterAliases(al, codecaliases, i, modname) ==
    IF i > Len(codecaliases) THEN al
    ELSE LET alias == codecaliases[i]
         IN  RegisterAliases(IF alias \in DOMAIN al THEN al
                             ELSE (alias :> modname) @@ al,
                             codecaliases, i + 1, modname)

\* CacheKey as it would be were the cache keyed by the normalized name
CacheKey_Normalized(encoding) == normalize_encoding(encoding)

\* the key of _cache in "_cache.get(encoding, _unknown)" and in
\* "_cache[encoding] = ...": the argument as passed
CacheKey(encoding) == encoding

\* Cached with the lookup made under the normalized name
Cached_ByNormalizedName(cache, encoding) == normalize_encoding(encoding) \in DOMAIN cache

\* Cached with the test "if entry:": a cached None does not count
Cached_Truthy(cache, encoding) ==
    CacheKey(encoding) \in DOMAIN cache /\ cache[CacheKey(encoding)] # NoneEntry

\* "entry = _cache.get(encoding, _unknown); if entry is not _unknown"
Cached(cache, encoding) == CacheKey(encoding) \in DOMAIN cache

\* Outcome where a module without getregentry raises and is not cached
Outcome_RaiseWithoutGetregentry(mods, imp, id) ==
    IF ~imp.loaded
    THEN [raised |-> "", entry |-> NoneEntry, store |-> TRUE, factory |-> FALSE]
    ELSE IF ~mods[imp.modname].hasreg
    THEN [raised |-> "CodecRegistryError: incompatible codecs", entry |-> NoneEntry,
          store |-> FALSE, factory |-> FALSE]
    ELSE LET r == RegistryEntry(mods[imp.modname], imp.modname, id)
         IN  [raised |-> r.raised, entry |-> r.entry, store |-> r.raised = "",
              factory |-> TRUE]

\* Outcome where a failed registration is cached as a miss
Outcome_FailureCached(mods, imp, id) ==
    IF ~imp.loaded \/ ~mods[imp.modname].hasreg
    THEN [raised |-> "", entry |-> NoneEntry, store |-> TRUE, factory |-> FALSE]
    ELSE LET r == RegistryEntry(mods[imp.modname], imp.modname, id)
         IN  [raised |-> r.raised, entry |-> r.entry, store |-> TRUE,
              factory |-> TRUE]

\* what a cache miss ends with, given the result imp of the import loop:
\*   mod is None (no import succeeded, or AttributeError on mod.getregentry):
\*       "_cache[encoding] = None; return None"
\*   otherwise the registry entry: an exception (nothing stored) or the
\*       CodecInfo, stored by "_cache[encoding] = entry"
\* store: the call writes entry to _cache; factory: getregentry() was called
Outcome(mods, imp, id) ==
    IF ~imp.loaded \/ ~mods[imp.modname].hasreg
    THEN [raised |-> "", entry |-> NoneEntry, store |-> TRUE, factory |-> FALSE]
    ELSE LET r == RegistryEntry(mods[imp.modname], imp.modname, id)
         IN  [raised |-> r.raised, entry |-> r.entry, store |-> r.raised = "",
              factory |-> TRUE]

\* AliasesAfter where declared aliases overwrite existing ones
AliasesAfter_Overwrite(al, m, modname) ==
    IF m.hasaliases
    THEN [k \in DOMAIN al \cup {m.aliases[i] : i \in 1..Len(m.aliases)} |->
             IF \E i \in 1..Len(m.aliases) : m.aliases[i] = k THEN modname ELSE al[k]]
    ELSE al

\* "try: codecaliases = mod.getaliases() except AttributeError: pass
\*  else: for alias in codecaliases: ..."
AliasesAfter(al, m, modname) ==
    IF m.hasaliases THEN RegisterAliases(al, m.aliases, 1, modname) ELSE al

\* search_function(encoding), a cache hit: return entry
SearchHit(encoding) ==
    /\ Cached(_cache, encoding)
    /\ log' = Append(log,
          [encoding |-> encoding, hit |-> TRUE,
           norm_encoding |-> <<>>, aliased_encoding |-> AliasGet(<<>>, <<>>),
           imports |-> <<>>, loaded |-> FALSE, modname |-> <<>>,
           factory |-> FALSE, raised |-> "", entry |-> _cache[CacheKey(encoding)],
           cache_before |-> _cache, aliases_before |-> _aliases])
    /\ UNCHANGED <<_cache, _aliases, modules, nextId>>

\* search_function(encoding), a cache miss: normalize, look up the alias,
\* import, validate, store, register the module's aliases
SearchMiss(encoding) ==
    /\ ~Cached(_cache, encoding)
    /\ LET norm_encoding    == normalize_encoding(encoding)
           aliased_encoding == AliasedEncoding(_aliases, norm_encoding)
           modnames         == ModNames(aliased_encoding, norm_encoding)
           imp              == ImportLoop(modules, modnames, 1, <<>>)
           out              == Outcome(modules, imp, nextId)
           registered       == out.raised = "" /\ out.entry # NoneEntry
       IN  /\ _cache' = IF out.store THEN (CacheKey(encoding) :> out.entry) @@ _cache
                        ELSE _cache
           /\ _aliases' = IF registered
                          THEN AliasesAfter(_aliases, modules[imp.modname], imp.modname)
                          ELSE _aliases
           /\ nextId' = IF registered THEN nextId + 1 ELSE nextId
           /\ log' = Append(log,
                 [encoding |-> encoding, hit |-> FALSE,
                  norm_encoding |-> norm_encoding,
                  aliased_encoding |-> aliased_encoding,
                  imports |-> imp.imports, loaded |-> imp.loaded,
                  modname |-> imp.modname, factory |-> out.factory,
                  raised |-> out.raised, entry |-> out.entry,
                  cache_before |-> _cache, aliases_before |-> _aliases])
    /\ UNCHANGED modules

----------------------------------------------------------------------------
(* The environment: names requested, aliases.aliases, importable modules *)

Name_a_b == <<"a", "_", "b">>
Name_x == <<"x">>
Name_y == <<"y">>
Name_a_dot_b == <<"a", ".", "b">>

\* the names search_function is called with
Encodings ==
    { <<"a", "-", "b">>, <<"a", "-", "-", "b">>, Name_x, Name_y, Name_a_dot_b,
      <<"-">> }

\* possible contents of aliases.aliases when the package is imported
AliasTables ==
    { <<>>,
      (Name_x :> Name_a_b),
      (Name_x :> Name_y),
      (Name_x :> Name_a_dot_b),
      (Name_a_b :> Name_x),
      (Name_a_dot_b :> <<>>) @@ (Name_a_b :> Name_x) }

Callables6 == <<"callable", "callable", "callable", "callable", "callable", "callable", "name">>

\* getregentry() returns a CodecInfo; no getaliases
GoodInfo == Module(TRUE, TRUE, Callables6, FALSE, <<>>)
\* getregentry() returns a CodecInfo; getaliases() returns ['y']
GoodInfoAliasY == Module(TRUE, TRUE, Callables6, TRUE, <<Name_y>>)
\* getregentry() returns a 4-tuple; getaliases() returns ['y', 'x']
GoodTuple ==
    Module(TRUE, FALSE, <<"callable", "callable", "None", "None">>, TRUE,
           <<Name_y, Name_x>>)
\* the module defines no getregentry
NoGetregentry == Module(FALSE, FALSE, <<>>, TRUE, <<Name_y>>)
\* the first member of the tuple (encode) is not callable
BadEncode ==
    Module(TRUE, FALSE, <<"object", "callable", "None", "None">>, TRUE, <<Name_y>>)
\* the tuple has three members
ShortTuple ==
    Module(TRUE, FALSE, <<"callable", "callable", "None">>, FALSE, <<>>)

ModuleSets ==
    { (Name_a_b :> ka) @@ (Name_x :> kx) @@ (Name_y :> ky) :
        ka \in {NoModule, NoGetregentry, BadEncode, ShortTuple, GoodTuple, GoodInfo},
        kx \in {NoModule, NoGetregentry, GoodInfoAliasY},
        ky \in {NoModule, BadEncode, GoodInfo} }

\* no thread is inside search_function
ThreadsIdle ==
    /\ tstate = <<>>
    /\ done = {}
    /\ writes = <<>>

\* the normalize_encoding driver while search_function is exercised
NormIdle ==
    /\ npc = "idle"
    /\ encA = <<>>
    /\ encB = <<>>
    /\ outA = <<>>
    /\ outB = <<>>
    /\ outAA = <<>>

\* "_cache = {}", "_aliases = aliases.aliases"
Init ==
    /\ _cache = <<>>
    /\ _aliases \in AliasTables
    /\ modules \in ModuleSets
    /\ nextId = 1
    /\ log = <<>>
    /\ ThreadsIdle
    /\ NormIdle

search_function ==
    /\ Len(log) < MaxCalls
    /\ \E encoding \in Encodings : SearchHit(encoding) \/ SearchMiss(encoding)
    /\ UNCHANGED normVars
    /\ UNCHANGED threadVars

Next == search_function

Spec == Init /\ [][Next]_vars

----------------------------------------------------------------------------
(* normalize_encoding applied to bounded inputs *)

NormAlphabet == {"a", "A", NonAsciiAlnum, ".", "_", "-"}

NormNames == UNION {[1..k -> NormAlphabet] : k \in 0..MaxLen}

\* the resolver's state while only normalize_encoding is exercised
ResolverIdle ==
    /\ _cache = <<>>
    /\ _aliases = <<>>
    /\ modules = <<>>
    /\ nextId = 1
    /\ log = <<>>
    /\ ThreadsIdle

NormInit ==
    /\ npc = "start"
    /\ encA \in NormNames
    /\ encB = <<>>
    /\ outA = <<>>
    /\ outB = <<>>
    /\ outAA = <<>>
    /\ ResolverIdle

\* outA = normalize_encoding(encA)
Normalize ==
    /\ npc = "start"
    /\ outA' = normalize_encoding(encA)
    /\ npc' = "normalized"
    /\ UNCHANGED <<encA, encB, outB, outAA>>
    /\ UNCHANGED resolverVars

\* outAA = normalize_encoding(outA): the result normalized again
Renormalize ==
    /\ npc = "normalized"
    /\ outAA' = normalize_encoding(outA)
    /\ npc' = "renormalized"
    /\ UNCHANGED <<encA, encB, outA, outB>>
    /\ UNCHANGED resolverVars

\* outB = normalize_encoding(b) for a second name b, to compare with outA
NormalizeOther ==
    /\ npc = "normalized"
    /\ \E b \in NormNames :
          /\ encB' = b
          /\ outB' = normalize_encoding(b)
    /\ npc' = "compared"
    /\ UNCHANGED <<encA, outA, outAA>>
    /\ UNCHANGED resolverVars

NormNext == Normalize \/ Renormalize \/ NormalizeOther

SpecNorm == NormInit /\ [][NormNext]_vars

----------------------------------------------------------------------------
(* search_function called from several threads: every read and every write *)
(* of _cache and _aliases is one atomic step; nothing is locked            *)

Threads == 1..MaxThreads

\* the names the threads call search_function with
ThreadEncodings == { <<"a", "-", "b">>, Name_y }

\* getregentry() returns a 4-tuple; no getaliases
PlainTuple ==
    Module(TRUE, FALSE, <<"callable", "callable", "None", "None">>, FALSE, <<>>)

ThreadModuleSets ==
    { (Name_a_b :> ka) @@ (Name_x :> NoModule) @@ (Name_y :> ky) :
        ka \in {NoModule, BadEncode, GoodTuple},
        ky \in {NoModule, PlainTuple} }

\* a thread outside search_function; n counts the calls it has made
IdleThread(n) ==
    [pc |-> "idle", n |-> n, encoding |-> <<>>, seen |-> 0, modname |-> <<>>,
     raised |-> "", entry |-> NoneEntry, idx |-> 0]

\* the calls made so far, returned or not
CallsStarted ==
    Cardinality(done) + Cardinality({t \in Threads : tstate[t].pc # "idle"})

\* what a thread reports when it leaves search_function
CallRecord(t, encoding, hit, seen, raised, entry) ==
    [thread |-> t, n |-> tstate[t].n + 1, encoding |-> encoding, hit |-> hit,
     seen |-> seen, raised |-> raised, entry |-> entry]

\* "return entry" / "return None" / the exception leaving the function
Return(t, raised, entry) ==
    /\ done' = done \cup {CallRecord(t, tstate[t].encoding, FALSE, tstate[t].seen,
                                     raised, entry)}
    /\ tstate' = [tstate EXCEPT ![t] = IdleThread(tstate[t].n + 1)]

\* StoreEntry as _cache.setdefault(encoding, entry): the first write stays
StoreEntry_KeepFirst(cache, encoding, entry) ==
    IF CacheKey(encoding) \in DOMAIN cache THEN cache
    ELSE (CacheKey(encoding) :> entry) @@ cache

\* "_cache[encoding] = entry" (also "_cache[encoding] = None")
StoreEntry(cache, encoding, entry) == (CacheKey(encoding) :> entry) @@ cache

ThreadInit ==
    /\ _cache = <<>>
    /\ _aliases \in {<<>>, (Name_x :> Name_y)}
    /\ modules \in ThreadModuleSets
    /\ nextId = 1
    /\ log = <<>>
    /\ tstate = [t \in Threads |-> IdleThread(0)]
    /\ done = {}
    /\ writes = [e \in ThreadEncodings |-> <<>>]
    /\ NormIdle

\* "entry = _cache.get(encoding, _unknown)": the atomic read of the cache;
\* on a hit the thread returns the entry it read
ThreadLookup(t) ==
    /\ tstate[t].pc = "idle"
    /\ CallsStarted < MaxThreadCalls
    /\ \E encoding \in ThreadEncodings :
          IF Cached(_cache, encoding)
          THEN /\ done' = done \cup
                     {CallRecord(t, encoding, TRUE, Len(writes[encoding]), "",
                                 _cache[CacheKey(encoding)])}
               /\ tstate' = [tstate EXCEPT ![t] = IdleThread(tstate[t].n + 1)]
          ELSE /\ tstate' = [tstate EXCEPT ![t].pc = "load",
                                           ![t].encoding = encoding,
                                           ![t].seen = Len(writes[encoding])]
               /\ UNCHANGED done
    /\ UNCHANGED <<_cache, _aliases, modules, nextId, log, writes>>
    /\ UNCHANGED normVars

\* after a miss: the read of _aliases, the import loop, getregentry() and
\* the validation, all on the thread's own locals; an exception leaves the
\* function here
ThreadLoad(t) ==
    /\ tstate[t].pc = "load"
    /\ LET norm_encoding    == normalize_encoding(tstate[t].encoding)
           aliased_encoding == AliasedEncoding(_aliases, norm_encoding)
           modnames         == ModNames(aliased_encoding, norm_encoding)
           imp              == ImportLoop(modules, modnames, 1, <<>>)
           out              == Outcome(modules, imp, nextId)
       IN  /\ nextId' = IF out.entry # NoneEntry THEN nextId + 1 ELSE nextId
           /\ IF out.store
              THEN /\ tstate' = [tstate EXCEPT ![t].pc = "store",
                                               ![t].modname = imp.modname,
                                               ![t].raised = out.raised,
                                               ![t].entry = out.entry]
                   /\ UNCHANGED done
              ELSE Return(t, out.raised, out.entry)
    /\ UNCHANGED <<_cache, _aliases, modules, log, writes>>
    /\ UNCHANGED normVars

\* the module the thread imported defines getaliases and returns aliases
HasAliases(t) ==
    /\ tstate[t].entry # NoneEntry
    /\ modules[tstate[t].modname].hasaliases
    /\ modules[tstate[t].modname].aliases # <<>>

\* "_cache[encoding] = entry" (or "= None"): the atomic write of the cache
ThreadStore(t) ==
    /\ tstate[t].pc = "store"
    /\ _cache' = StoreEntry(_cache, tstate[t].encoding, tstate[t].entry)
    /\ writes' = [writes EXCEPT ![tstate[t].encoding] = Append(@, tstate[t].entry)]
    /\ IF tstate[t].raised = "" /\ HasAliases(t)
       THEN /\ tstate' = [tstate EXCEPT ![t].pc = "check", ![t].idx = 1]
            /\ UNCHANGED done
       ELSE Return(t, tstate[t].raised, tstate[t].entry)
    /\ UNCHANGED <<_aliases, modules, nextId, log>>
    /\ UNCHANGED normVars

\* the end of one iteration of "for alias in codecaliases"
NextAlias(t) ==
    IF tstate[t].idx < Len(modules[tstate[t].modname].aliases)
    THEN /\ tstate' = [tstate EXCEPT ![t].pc = "check", ![t].idx = @ + 1]
         /\ UNCHANGED done
    ELSE Return(t, "", tstate[t].entry)

\* "if alias not in _aliases": the atomic read of the alias table
ThreadCheckAlias(t) ==
    /\ tstate[t].pc = "check"
    /\ IF modules[tstate[t].modname].aliases[tstate[t].idx] \in DOMAIN _aliases
       THEN NextAlias(t)
       ELSE /\ tstate' = [tstate EXCEPT ![t].pc = "set"]
            /\ UNCHANGED done
    /\ UNCHANGED <<_cache, _aliases, modules, nextId, log, writes>>
    /\ UNCHANGED normVars

\* "_aliases[alias] = modname": the atomic write of the alias table
ThreadSetAlias(t) ==
    /\ tstate[t].pc = "set"
    /\ _aliases' = (modules[tstate[t].modname].aliases[tstate[t].idx]
                       :> tstate[t].modname) @@ _aliases
    /\ NextAlias(t)
    /\ UNCHANGED <<_cache, modules, nextId, log, writes>>
    /\ UNCHANGED normVars

ThreadNext ==
    \E t \in Threads :
        \/ ThreadLookup(t)
        \/ ThreadLoad(t)
        \/ ThreadStore(t)
        \/ ThreadCheckAlias(t)
        \/ ThreadSetAlias(t)

SpecThreads == ThreadInit /\ [][ThreadNext]_vars

----------------------------------------------------------------------------
(* Claims about normalize_encoding, checked under SpecNorm *)

\* a character of a separator run: neither alphanumeric nor the dot
IsSeparatorChar(c) == ~isalnum(c) /\ c # "."

\* the name with every maximal separator run replaced by one mark
RECURSIVE Skeleton(_)
Skeleton(name) ==
    IF name = <<>> THEN <<>>
    ELSE LET rest == Skeleton(Tail(name))
         IN  IF IsSeparatorChar(Head(name))
             THEN IF rest # <<>> /\ Head(rest) = "<sep>" THEN rest
                  ELSE <<"<sep>">> \o rest
             ELSE <<Head(name)>> \o rest

\* str.lower() on the letters of the alphabet
LowerChar(c) == IF c = "A" THEN "a" ELSE c

LowerName(name) == [i \in 1..Len(name) |-> LowerChar(name[i])]

\* C7: normalize_encoding is idempotent: normalizing the result of a
\* normalization again gives the same name, for every name over ASCII and
\* non-ASCII alphanumerics, '.', '_' and other punctuation.
C7_NormalizeIdempotent ==
    npc = "renormalized" => outAA = outA

\* C8: a non-empty name made only of non-alphanumeric, non-'.' characters
\* normalizes to exactly one separator '_'.
C8_PunctuationOnlyIsOneSeparator ==
    (/\ npc = "normalized"
     /\ encA # <<>>
     /\ \A i \in 1..Len(encA) : IsSeparatorChar(encA[i]))
    => outA = <<"_">>

\* C9 (as stated): two names that differ only in letter case and in the
\* characters of their separator runs normalize to the same name.
C9_CaseAndPunctuationInsensitive ==
    (/\ npc = "compared"
     /\ Skeleton(LowerName(encA)) = Skeleton(LowerName(encB)))
    => outA = outB

\* C9 (amended): two names that differ only in the characters of their
\* separator runs normalize to the same name; letter case is kept.
C9_PunctuationInsensitive ==
    (/\ npc = "compared"
     /\ Skeleton(encA) = Skeleton(encB))
    => outA = outB

\* C9 witness: 'A-a' and 'A_a' were both normalized, to 'A_a'.
C9_Witness ==
    /\ npc = "compared"
    /\ encA = <<"A", "-", "a">>
    /\ encB = <<"A", "_", "a">>
    /\ outA = <<"A", "_", "a">>
    /\ outB = outA

----------------------------------------------------------------------------
(* Claims about search_function, checked under Spec *)

Calls == 1..Len(log)

\* the call returned a CodecInfo
Resolved(r) == r.raised = "" /\ r.entry # NoneEntry

\* the call returned (a CodecInfo or None) instead of raising
Returned(r) == r.raised = ""

\* _cache and _aliases as call i left them
CacheAfter(i) == IF i = Len(log) THEN _cache ELSE log[i + 1].cache_before

AliasTableAfter(i) == IF i = Len(log) THEN _aliases ELSE log[i + 1].aliases_before

\* C1: when a call for a name returned a descriptor, every later call for
\* the same name returns that very descriptor and imports no module.
C1_RepeatReturnsSameDescriptor ==
    \A i, j \in Calls :
        (i < j /\ log[i].encoding = log[j].encoding /\ Resolved(log[i]))
        => /\ log[j].raised = ""
           /\ log[j].entry = log[i].entry
           /\ log[j].imports = <<>>
           /\ ~log[j].factory

\* C1 witness: a miss that imported a module and returned a descriptor,
\* followed by a hit for the same name with the same descriptor.
C1_Witness ==
    \E i, j \in Calls :
        /\ i < j /\ log[i].encoding = log[j].encoding
        /\ ~log[i].hit /\ log[i].imports # <<>> /\ Resolved(log[i])
        /\ log[j].hit /\ log[j].entry = log[i].entry

\* C2 (as stated): two spellings with the same normalized name share one
\* cache entry: once one of them has been resolved (descriptor or unknown),
\* resolving the other imports and validates nothing.
C2_OncePerNormalizedName ==
    \A i, j \in Calls :
        (/\ i < j
         /\ normalize_encoding(log[i].encoding) = normalize_encoding(log[j].encoding)
         /\ Returned(log[i]))
        => (log[j].imports = <<>> /\ ~log[j].factory)

\* C2 (amended): the cache is keyed by the name as passed: a call is a hit
\* exactly when an earlier call for the same spelling returned, so per
\* spelling at most one call that returns imports or validates; another
\* spelling of the same normalized name imports and validates again.
C2_OncePerRequestedName ==
    /\ \A j \in Calls :
          log[j].hit <=> \E i \in Calls :
                            /\ i < j
                            /\ log[i].encoding = log[j].encoding
                            /\ Returned(log[i])
    /\ \A j \in Calls : log[j].hit => (log[j].imports = <<>> /\ ~log[j].factory)
    /\ \A e \in Encodings :
          Cardinality({i \in Calls : /\ log[i].encoding = e
                                     /\ ~log[i].hit
                                     /\ Returned(log[i])}) <= 1

\* C2 witness: 'a-b' was resolved from a module, then 'a--b' (the same
\* normalized name) imported and validated the module again.
C2_Witness ==
    \E i, j \in Calls :
        /\ i < j
        /\ log[i].encoding = <<"a", "-", "b">>
        /\ log[j].encoding = <<"a", "-", "-", "b">>
        /\ Resolved(log[i]) /\ Resolved(log[j])
        /\ log[j].imports # <<>> /\ log[j].factory
        /\ log[j].entry # log[i].entry

\* C3: when no candidate module of a name can be imported, the first call
\* makes its import attempts, stores the negative result in the cache and
\* returns "unknown" (None); every later call for the name returns the same
\* without importing.
C3_UnknownIsCached ==
    \A i \in Calls :
        (~log[i].hit /\ ~log[i].loaded)
        => /\ log[i].raised = "" /\ log[i].entry = NoneEntry
           /\ log[i].encoding \in DOMAIN CacheAfter(i)
           /\ CacheAfter(i)[log[i].encoding] = NoneEntry
           /\ \A j \in Calls :
                 (i < j /\ log[j].encoding = log[i].encoding)
                 => /\ log[j].imports = <<>>
                    /\ log[j].raised = "" /\ log[j].entry = NoneEntry

\* C3 witness: a miss whose import attempts all failed, then a later call
\* for the same name answered from the cache.
C3_Witness ==
    \E i, j \in Calls :
        /\ i < j /\ log[i].encoding = log[j].encoding
        /\ ~log[i].hit /\ ~log[i].loaded /\ log[i].imports # <<>>
        /\ log[j].hit /\ log[j].entry = NoneEntry

\* the call imported a module that defines no getregentry
LoadedWithoutGetregentry(r) ==
    ~r.hit /\ r.loaded /\ ~modules[r.modname].hasreg

\* C4 (as stated): when the imported module has no getregentry the call
\* raises the "incompatible codec" error and writes nothing to the cache,
\* so the next call for the name imports again.
C4_MissingFactoryRaisesUncached ==
    \A i \in Calls :
        LoadedWithoutGetregentry(log[i])
        => /\ log[i].raised # ""
           /\ log[i].encoding \notin DOMAIN CacheAfter(i)
           /\ \A j \in Calls :
                 (i < j /\ log[j].encoding = log[i].encoding)
                 => log[j].imports # <<>>

\* C4 (amended): when the imported module has no getregentry the call is
\* treated like "not found": it returns None without raising and stores
\* None in the cache, so later calls for the name import nothing.
C4_MissingFactoryIsCachedMiss ==
    \A i \in Calls :
        LoadedWithoutGetregentry(log[i])
        => /\ log[i].raised = "" /\ log[i].entry = NoneEntry
           /\ ~log[i].factory
           /\ log[i].encoding \in DOMAIN CacheAfter(i)
           /\ CacheAfter(i)[log[i].encoding] = NoneEntry
           /\ \A j \in Calls :
                 (i < j /\ log[j].encoding = log[i].encoding)
                 => /\ log[j].hit /\ log[j].imports = <<>>
                    /\ log[j].raised = "" /\ log[j].entry = NoneEntry

\* C4 witness: a module without getregentry was imported, and a later call
\* for the same name was answered None from the cache.
C4_Witness ==
    \E i, j \in Calls :
        /\ i < j /\ log[i].encoding = log[j].encoding
        /\ LoadedWithoutGetregentry(log[i])
        /\ log[j].hit /\ log[j].entry = NoneEntry

\* the call obtained from getregentry() a tuple of valid length whose first
\* member (encode) is not callable
EncodeNotCallable(r) ==
    /\ ~r.hit /\ r.loaded
    /\ modules[r.modname].hasreg /\ ~modules[r.modname].isinfo
    /\ Len(modules[r.modname].entry) \in 4..7
    /\ modules[r.modname].entry[1] # "callable"

\* call j is the first call after call i for the name of call i
NextCallFor(i, j) ==
    /\ i < j
    /\ log[j].encoding = log[i].encoding
    /\ \A k \in Calls : (i < k /\ k < j) => log[k].encoding # log[i].encoding

Declared(r) ==
    {modules[r.modname].aliases[k] : k \in 1..Len(modules[r.modname].aliases)}

\* the call returned a descriptor from a module that defines getaliases
ResolvedWithAliases(r) ==
    ~r.hit /\ Resolved(r) /\ modules[r.modname].hasaliases

\* C6 (as stated): after a successful call, every declared alias not yet in
\* the cache is mapped in the cache to the descriptor returned, cache
\* entries already present are kept, and a later call for such an alias
\* returns that descriptor without importing.
C6_AliasesCachedWithDescriptor ==
    \A i \in Calls :
        ResolvedWithAliases(log[i])
        => /\ \A a \in Declared(log[i]) :
                 /\ a \in DOMAIN CacheAfter(i)
                 /\ CacheAfter(i)[a] = IF a \in DOMAIN log[i].cache_before
                                       THEN log[i].cache_before[a]
                                       ELSE log[i].entry
           /\ \A j \in Calls :
                 (/\ i < j
                  /\ log[j].encoding \in Declared(log[i])
                  /\ log[j].encoding \notin DOMAIN log[i].cache_before)
                 => (log[j].entry = log[i].entry /\ log[j].imports = <<>>)

\* C6 (amended): after a successful call, every declared alias not yet in
\* the alias table is mapped there to the name of the module imported;
\* alias table entries already present are kept; the cache gains only the
\* entry of the requested name, so a later call for such an alias that
\* misses the cache imports that module again.
C6_AliasesRegisteredInAliasTable ==
    \A i \in Calls :
        ResolvedWithAliases(log[i])
        => /\ DOMAIN AliasTableAfter(i) =
                 DOMAIN log[i].aliases_before \cup Declared(log[i])
           /\ \A a \in DOMAIN AliasTableAfter(i) :
                 AliasTableAfter(i)[a] = IF a \in DOMAIN log[i].aliases_before
                                         THEN log[i].aliases_before[a]
                                         ELSE log[i].modname
           /\ DOMAIN CacheAfter(i) =
                 DOMAIN log[i].cache_before \cup {log[i].encoding}
           /\ \A j \in Calls :
                 (/\ i < j
                  /\ log[j].encoding \in Declared(log[i])
                  /\ log[j].encoding \notin DOMAIN log[i].aliases_before
                  /\ ~log[j].hit)
                 => /\ log[j].imports = <<log[i].modname>>
                    /\ log[j].loaded /\ log[j].modname = log[i].modname

\* C6 witness: a module declaring a new alias and an alias already in the
\* table (kept) was resolved, then the new alias was requested and the same
\* module was imported a second time.
C6_Witness ==
    \E i, j \in Calls :
        /\ i < j
        /\ ResolvedWithAliases(log[i])
        /\ \E a \in Declared(log[i]) :
              /\ a \in DOMAIN log[i].aliases_before
              /\ log[i].aliases_before[a] # log[i].modname
              /\ AliasTableAfter(i)[a] = log[i].aliases_before[a]
        /\ log[j].encoding \in Declared(log[i])
        /\ log[j].encoding \notin DOMAIN log[i].aliases_before
        /\ ~log[j].hit /\ Resolved(log[j])
        /\ log[j].imports = <<log[i].modname>>

\* a candidate that is imported: not empty and without '.'
Candidate(name) == name # <<>> /\ \A k \in 1..Len(name) : name[k] # "."

\* the call missed the cache and found an alias for its normalized name
AliasFound(r) == ~r.hit /\ r.aliased_encoding.found

\* C10 (as stated): on a miss with an alias, the imports are attempted in
\* the order [normalized name, alias target]: the alias target is imported
\* only after the import of the normalized name failed, and when modules
\* exist under both names the one of the normalized name is used.
C10_NormalizedNameFirst ==
    \A i \in Calls :
        LET r == log[i]
            n == r.norm_encoding
            t == r.aliased_encoding.value
        IN  (AliasFound(r) /\ Candidate(n) /\ t # n)
            => /\ r.imports # <<>> /\ r.imports[1] = n
               /\ \A k \in 1..Len(r.imports) :
                     r.imports[k] = t => (k = 2 /\ ~Importable(modules, n))
               /\ (Candidate(t) /\ Importable(modules, n) /\ Importable(modules, t))
                  => r.modname = n

\* C10 (amended): on a miss with an alias, the imports are attempted in the
\* order [alias target, normalized name]: the normalized name is imported
\* only after the import of the alias target failed or the alias target was
\* skipped (empty or with '.'), and when modules exist under both names the
\* one of the alias target is used.
C10_AliasTargetFirst ==
    \A i \in Calls :
        LET r == log[i]
            n == r.norm_encoding
            t == r.aliased_encoding.value
        IN  (AliasFound(r) /\ t # n)
            => /\ Candidate(t) => (r.imports # <<>> /\ r.imports[1] = t)
               /\ \A k \in 1..Len(r.imports) :
                     r.imports[k] = n
                     => IF Candidate(t)
                        THEN k = 2 /\ ~Importable(modules, t)
                        ELSE k = 1
               /\ (Candidate(t) /\ Importable(modules, t))
                  => (r.loaded /\ r.modname = t /\ r.imports = <<t>>)
               /\ (Candidate(n) /\ Importable(modules, n)) => r.loaded

\* C10 witness: the alias target was imported first and failed, then the
\* module of the normalized name was imported and used.
C10_Witness ==
    \E i \in Calls :
        /\ AliasFound(log[i])
        /\ log[i].aliased_encoding.value # log[i].norm_encoding
        /\ log[i].imports =
              <<log[i].aliased_encoding.value, log[i].norm_encoding>>
        /\ log[i].loaded /\ log[i].modname = log[i].norm_encoding

\* C11: no import is ever attempted for a candidate that is empty or
\* contains '.': every import request of a call is 'encodings.' followed by
\* its normalized name or its alias target, non-empty and without '.'; a
\* name all of whose candidates are excluded imports nothing and resolves
\* as unknown (None, cached).
C11_NoExcludedCandidateImported ==
    \A i \in Calls :
        LET r == log[i]
            n == r.norm_encoding
            t == r.aliased_encoding
        IN  ~r.hit
            => /\ \A k \in 1..Len(r.imports) :
                     /\ Candidate(r.imports[k])
                     /\ r.imports[k] = n \/ (t.found /\ r.imports[k] = t.value)
               /\ (~Candidate(n) /\ (t.found => ~Candidate(t.value)))
                  => /\ r.imports = <<>>
                     /\ r.raised = "" /\ r.entry = NoneEntry
                     /\ r.encoding \in DOMAIN CacheAfter(i)
                     /\ CacheAfter(i)[r.encoding] = NoneEntry

\* C11 witness: one call skipped an alias target with '.' and imported only
\* its normalized name; another call, for a name that normalizes to the
\* empty string and has no alias, imported nothing and returned None.
C11_Witness ==
    \E i, j \in Calls :
        /\ AliasFound(log[i])
        /\ ~Candidate(log[i].aliased_encoding.value)
        /\ log[i].imports = <<log[i].norm_encoding>>
        /\ ~log[j].hit
        /\ log[j].norm_encoding = <<>>
        /\ ~log[j].aliased_encoding.found
        /\ log[j].imports = <<>>
        /\ log[j].raised = "" /\ log[j].entry = NoneEntry

----------------------------------------------------------------------------
(* Claims about concurrent calls, checked under SpecThreads *)

\* the calls for a name that have returned / returned without raising
CallsFor(encoding) == {c \in done : c.encoding = encoding}
ReturnedFor(encoding) == {c \in CallsFor(encoding) : c.raised = ""}

\* the threads that have written the cache for a name and not yet returned
PastStore(encoding) ==
    {t \in Threads : tstate[t].encoding = encoding /\ tstate[t].pc \in {"check", "set"}}

\* C12 as stated: when threads race on the first Resolve of a name, all the
\* calls for that name return one and the same descriptor, and the cache
\* entry for the name, once written, never changes to a different one
C12_ConcurrentCallsSameDescriptor ==
    \A encoding \in ThreadEncodings :
        /\ \A c1, c2 \in ReturnedFor(encoding) : c1.entry = c2.entry
        /\ \A k \in 1..Len(writes[encoding]) : writes[encoding][k] = writes[encoding][1]

\* C12 as amended: every call that missed the cache read it before the first
\* write for the name and writes the result it built itself, so the racing
\* calls may return different descriptors and each of them overwrites the
\* entry; the entry is always the one written last; a call that reads the
\* cache after a write is a hit and returns the entry it read; the only
\* writes are those of the calls that missed, so once they have returned the
\* entry stays and every later Resolve returns it
C12_ConvergesAfterRace ==
    \A encoding \in ThreadEncodings :
        LET w == writes[encoding]
        IN  /\ (w = <<>>) <=> (CacheKey(encoding) \notin DOMAIN _cache)
            /\ w # <<>> => _cache[CacheKey(encoding)] = w[Len(w)]
            /\ \A c \in CallsFor(encoding) :
                  IF c.hit
                  THEN /\ c.seen \in 1..Len(w)
                       /\ c.entry = w[c.seen]
                       /\ c.raised = ""
                  ELSE /\ c.seen = 0
                       /\ c.raised = "" => \E k \in 1..Len(w) : w[k] = c.entry
            /\ \A t \in Threads :
                  (tstate[t].pc # "idle" /\ tstate[t].encoding = encoding)
                      => tstate[t].seen = 0
            /\ Len(w) = Cardinality({c \in ReturnedFor(encoding) : ~c.hit})
                          + Cardinality(PastStore(encoding))

\* two racing calls returned different descriptors for the name, and a later
\* call returned the entry written second
C12_Witness ==
    \E encoding \in ThreadEncodings :
        \E c1, c2, c3 \in ReturnedFor(encoding) :
            /\ ~c1.hit /\ ~c2.hit /\ c1.entry # NoneEntry /\ c2.entry # NoneEntry
            /\ c1.entry # c2.entry
            /\ c3.hit /\ c3.seen = 2
            /\ c3.entry = _cache[CacheKey(encoding)]
            /\ c3.entry # writes[encoding][1]

====
